---- MODULE Spec2Model ----
(***************************************************************************)
(* Violet Pool Controller: command dispatch of the switch entity           *)
(* (switch.py), its auto-reset task, the polling entity (entity.py), the   *)
(* binary sensors (binary_sensor.py) and the reading fetch of the config   *)
(* flow (config_flow.py).                                                  *)
(*                                                                         *)
(* The specifications share the variables:                                 *)
(*   SpecAck     the acknowledgement check of _send_command on bounded     *)
(*               texts                                                     *)
(*   Spec        one VioletSwitch (key PUMP) with concurrent service       *)
(*               calls, auto-reset tasks and a clock                       *)
(*   SpecPoll    one VioletPoolControllerEntity polled tick after tick     *)
(*   SpecRetry   one dispatch of the switch, or the polled entity          *)
(*   FairRetry   SpecRetry under the scheduling of the event loop          *)
(*   SpecFrame   one dispatch of the switch while the entity is polled     *)
(*   SpecRead    the states of two switches as read through their caches   *)
(*   SpecService a dispatch of the switch next to the command operations   *)
(*               of the coordinator (__init__.py)                          *)
(*   SpecSensor  two binary sensors (binary_sensor.py) over refreshes      *)
(*   SpecFlow    calls of fetch_api_data (config_flow.py)                  *)
(***************************************************************************)
EXTENDS Integers, Sequences, FiniteSets, TLC

VARIABLES
    ackText,            \* SpecAck: body of a 2xx response, a sequence of atoms
    ackKey,             \* SpecAck: self._key of the switch that sent the command
    ackResult,          \* SpecAck: "none" | "SUCCESS" | "PROTOCOL_MISMATCH"
    procs,              \* service calls and auto-reset tasks of the switch
    cancel_auto_reset,  \* self._cancel_auto_reset, None or {task id}
    auto_reset_time,    \* self.auto_reset_time, None or {seconds left to it}
    entity,             \* the fields of the polled VioletPoolControllerEntity
    poll,               \* the running async_update of that entity
    entity_notifications, \* persistent_notification_create calls of the entity,
                          \* in all and since the last successful poll
    service,            \* a command operation of the coordinator (__init__.py)
    coordinator,        \* coordinator.data and the poll that produced it
    cache,              \* per switch: _cached_state and the age of
                        \* _last_cache_update
    sensor,             \* per binary sensor: _has_logged_none_state, what the
                        \* last read returned, the warnings it logged
    flow,               \* fetch_api_data of the config flow and the cache
                        \* dict of its caller
    budget              \* what the environment may still do: service calls,
                        \* failed attempts, coordinator commands and polls,
                        \* and whether it polls the entity

AckVars == <<ackText, ackKey, ackResult>>
SwitchVars == <<procs, cancel_auto_reset, auto_reset_time>>
PollVars == <<entity, poll, entity_notifications>>
CoordVars == <<service, coordinator, cache, sensor, flow>>

vars == <<AckVars, SwitchVars, PollVars, CoordVars, budget>>

\* Python's None; a field that holds a value v holds the set {v}.
None == {}

(***************************************************************************)
(* Texts.  A text is a sequence of one-character strings; the inputs are   *)
(* built from atoms (words and the two whitespace characters) and then     *)
(* flattened, so strip, split and the substring test work on characters.   *)
(***************************************************************************)
NL == "\n"
SP == " "
Whitespace == {NL, SP}

W_OK          == <<"O", "K">>
W_PUMP        == <<"P", "U", "M", "P">>
W_LIGHT       == <<"L", "I", "G", "H", "T">>
W_ON          == <<"O", "N">>
W_OFF         == <<"O", "F", "F">>
W_SWITCHED_TO == <<"S", "W", "I", "T", "C", "H", "E", "D", "_", "T", "O">>
W_ERROR       == <<"E", "R", "R", "O", "R">>

\* The keys of SWITCHES.
Keys == {W_PUMP, W_LIGHT}

\* The words and whitespace the bounded acknowledgement texts are made of.
Atoms == {W_OK, W_PUMP, W_LIGHT, W_ON, W_OFF, W_SWITCHED_TO, <<NL>>, <<SP>>}

MaxAtoms == 6

RECURSIVE Flatten(_)
Flatten(ws) == IF ws = <<>> THEN <<>> ELSE Head(ws) \o Flatten(Tail(ws))

RECURSIVE LStrip(_)
LStrip(s) ==
    IF s # <<>> /\ Head(s) \in Whitespace THEN LStrip(Tail(s)) ELSE s

RECURSIVE RStrip(_)
RStrip(s) ==
    IF s # <<>> /\ s[Len(s)] \in Whitespace
    THEN RStrip(SubSeq(s, 1, Len(s) - 1))
    ELSE s

\* str.strip(): leading and trailing whitespace of the whole text removed.
Strip(s) == RStrip(LStrip(s))

\* str.split('\n'): the pieces between newlines; never empty.
RECURSIVE SplitNL(_)
SplitNL(s) ==
    IF \A i \in 1..Len(s) : s[i] # NL
    THEN <<s>>
    ELSE LET i == CHOOSE k \in 1..Len(s) :
                      s[k] = NL /\ \A j \in 1..(k - 1) : s[j] # NL
         IN <<SubSeq(s, 1, i - 1)>> \o SplitNL(SubSeq(s, i + 1, Len(s)))

\* `tok in line` of Python: tok is a substring of line.
Contains(tok, line) ==
    \E i \in 1..(Len(line) - Len(tok) + 1) :
        SubSeq(line, i, i + Len(tok) - 1) = tok

\* switch.py:80: lines = response_text.strip().split('\n')
AckLinesNoStrip(text) == SplitNL(text)
AckLines(text) == SplitNL(Strip(text))

\* switch.py:81: the condition under which an attempt is a success.
AckOk(text, key) ==
    LET lines == AckLines(text)
    IN  /\ Len(lines) >= 3
        /\ lines[1] = W_OK
        /\ lines[2] = key
        /\ (Contains(W_SWITCHED_TO, lines[3])
            \/ Contains(W_ON, lines[3])
            \/ Contains(W_OFF, lines[3]))

(***************************************************************************)
(* The switch entity: service calls, _send_command, the auto-reset task.   *)
(* Calls are processes 1..MaxCalls; the auto-reset task armed by call c is *)
(* process TaskOf(c).  Between two steps a process is at an await.         *)
(***************************************************************************)
MaxCalls == 2
MaxDelay == 1
MaxFaults == 3

\* switch.py:68
retry_attempts == 3

CallIds == 1..MaxCalls
TaskIds == (MaxCalls + 1)..(2 * MaxCalls)
ProcIds == CallIds \cup TaskIds
TaskOf(c) == c + MaxCalls

AutoDelays == 0..MaxDelay

\* The key of the modelled switch.
SwitchKey == W_PUMP

RECURSIVE Pow2(_)
Pow2(n) == IF n = 0 THEN 1 ELSE 2 * Pow2(n - 1)

\* switch.py:72: wait_time = 2 ** attempt
wait_time_shifted(attempt) == Pow2(attempt + 1)

wait_time(attempt) == Pow2(attempt)

\* What the device (or the transport) answers to one request.
AckBodies ==
    { Flatten(<<W_OK, <<NL>>, W_PUMP, <<NL>>, W_SWITCHED_TO, <<"_">>, W_ON>>),
      Flatten(<<W_OK, <<NL>>, W_LIGHT, <<NL>>, W_SWITCHED_TO, <<"_">>, W_ON>>),
      W_ERROR }

Responses ==
    [kind : {"response"}, status : {200}, text : AckBodies]
    \cup [kind : {"response"}, status : {500}, text : {W_ERROR}]
    \cup [kind : {"ClientError", "TimeoutError", "Exception"},
          status : {0}, text : {<<>>}]

\* switch.py:76-94: how one attempt ends.
AttemptOutcome(r, key) ==
    CASE r.kind = "ClientError"  -> "CLIENT_ERROR"
      [] r.kind = "TimeoutError" -> "TIMEOUT"
      [] r.kind = "Exception"    -> "UNEXPECTED"
      [] r.kind = "response" /\ r.status \notin 200..299 -> "RESPONSE_ERROR"
      [] r.kind = "response" /\ r.status \in 200..299 ->
            IF AckOk(r.text, key) THEN "SUCCESS" ELSE "PROTOCOL_MISMATCH"

\* A process.  attempt, timer, waits (the sleeps scheduled so far), requests
\* (requests sent so far) and rejected (the latest response was a non-2xx
\* status) are the progress of its _send_command; outcome, notified and
\* refreshed are what the dispatch did; superseded and off_seen record, for
\* a task, what happened while it was waiting to fire.
FreeProc ==
    [pc |-> "free", kind |-> "none", action |-> "none", auto_delay |-> 0,
     attempt |-> 0, timer |-> 0, waits |-> <<>>, requests |-> 0,
     rejected |-> FALSE, outcome |-> "none", notified |-> 0, refreshed |-> 0,
     superseded |-> FALSE, off_seen |-> FALSE,
     duration |-> {}, last_value |-> {}, waited |-> 0]

\* switch.py:101-102, 127, 133-134: a command argument taken from the
\* caller's kwargs is any value the caller passed; no branch of the code
\* depends on it, so the model keeps the set of values it may have.
Kwarg == 0 .. MaxDelay

\* The duration argument of _send_command: kwargs["duration"] in turn_on
\* (switch.py:101, 103), the literal 0 in turn_off (switch.py:128),
\* kwargs["auto_delay"] in turn_auto (switch.py:133, 136).
DurationOf(kind) == IF kind = "off" THEN {0} ELSE Kwarg

\* Entry of _send_command (switch.py:63-77): attempt 0 sends its request at once.
NewCall(kind, action) ==
    [FreeProc EXCEPT !.pc = "request", !.kind = kind, !.action = action,
                     !.requests = 1, !.duration = DurationOf(kind),
                     !.last_value = Kwarg]

\* switch.py:114, 119, without the sleep: the task goes on at once.
NewTaskNoSleep(auto_delay) ==
    [FreeProc EXCEPT !.pc = "delay", !.kind = "reset", !.action = "AUTO",
                     !.auto_delay = auto_delay, !.timer = 0]

\* switch.py:114, 119: the task created by create_task sleeps auto_delay seconds.
NewTask(auto_delay) ==
    [FreeProc EXCEPT !.pc = "delay", !.kind = "reset", !.action = "AUTO",
                     !.auto_delay = auto_delay, !.timer = auto_delay]

Pending(t) == procs[t].pc = "delay"

\* switch.py:114 without the assignment: the created task is not kept.
TaskHandleDropped(t) == None

\* switch.py:114: self._cancel_auto_reset is the task create_task returned.
TaskHandle(t) == {t}

\* The handler of a process returned (or raised): the locals of its
\* _send_command are gone, what it did (outcome, notification, refresh) stays.
Ended(pr, pc) ==
    [pr EXCEPT !.pc = pc, !.attempt = 0, !.timer = 0, !.waits = <<>>,
               !.requests = 0, !.rejected = FALSE]

\* What runs after `await self._send_command(...)` returns in the handler of
\* process p, whose record is qr by then: switch.py:105-114 (turn_on),
\* 137 (turn_auto, also when called by _auto_reset), nothing (turn_off).
\* kwargs["auto_delay"] is first read here (switch.py:105): the model draws
\* the value the caller passed, auto_delay, at this point.
Continue(p, qr, auto_delay) ==
    LET pr == [qr EXCEPT !.auto_delay = auto_delay] IN
    IF pr.kind = "on" /\ pr.auto_delay > 0
    THEN IF cancel_auto_reset # None
         THEN \* switch.py:109 calls the Task object: TypeError, the handler ends
              /\ procs' = [q \in ProcIds |->
                             IF q = p THEN Ended(pr, "raised")
                             ELSE IF q \in cancel_auto_reset /\ Pending(q)
                                  THEN [procs[q] EXCEPT !.superseded = TRUE]
                                  ELSE procs[q]]
              /\ UNCHANGED <<cancel_auto_reset, auto_reset_time>>
         ELSE /\ procs' = [procs EXCEPT ![p] = Ended(pr, "done"),
                                        ![TaskOf(p)] = NewTask(pr.auto_delay)]
              /\ auto_reset_time' = {pr.auto_delay}
              /\ cancel_auto_reset' = TaskHandle(TaskOf(p))
    ELSE IF pr.kind \in {"auto", "reset"}
    THEN /\ procs' = [procs EXCEPT ![p] = Ended(pr, "done")]
         /\ auto_reset_time' = None
         /\ UNCHANGED cancel_auto_reset
    ELSE /\ procs' = [q \in ProcIds |->
                        IF q = p THEN Ended(pr, "done")
                        ELSE IF pr.kind = "off" /\ pr.outcome = "SUCCESS" /\ Pending(q)
                             THEN [procs[q] EXCEPT !.off_seen = TRUE]
                             ELSE procs[q]]
         /\ UNCHANGED <<cancel_auto_reset, auto_reset_time>>

\* A service call may arrive for call process c, the next free one.
\* A variant in which a backoff wait blocks the thread of the event loop.
HoldsLoopWhileSleeping(pc) == pc = "sleep"

\* Whether a coroutine at position pc keeps the event loop to itself.  Every
\* wait of a dispatch and of a poll is an await (asyncio.sleep at
\* switch.py:74, 119 and entity.py:92; the requests at switch.py:76-79 and
\* entity.py:96-97), which hands the loop to the other coroutines.
HoldsLoop(pc) == FALSE

\* The event loop is free to run the coroutine self (a process of the switch,
\* or 0 for the poll): no other coroutine keeps it.
LoopFreeFor(self) ==
    /\ self # 0 => ~HoldsLoop(poll.pc)
    /\ \A p \in ProcIds \ {self} : ~HoldsLoop(procs[p].pc)

CallArrives(c) ==
    /\ LoopFreeFor(c)
    /\ budget.calls > 0
    /\ procs[c].pc = "free"
    /\ \A d \in CallIds : d < c => procs[d].pc # "free"

\* switch.py:98-103
async_turn_on(c) ==
    /\ CallArrives(c)
    /\ procs' = [procs EXCEPT ![c] = NewCall("on", "ON")]
    /\ budget' = [budget EXCEPT !.calls = @ - 1]
    /\ UNCHANGED <<AckVars, CoordVars, cancel_auto_reset, auto_reset_time, PollVars>>

\* switch.py:125-129
async_turn_off(c) ==
    /\ CallArrives(c)
    /\ procs' = [procs EXCEPT ![c] = NewCall("off", "OFF")]
    /\ budget' = [budget EXCEPT !.calls = @ - 1]
    /\ UNCHANGED <<AckVars, CoordVars, cancel_auto_reset, auto_reset_time, PollVars>>

\* switch.py:131-136
async_turn_auto(c) ==
    /\ CallArrives(c)
    /\ procs' = [procs EXCEPT ![c] = NewCall("auto", "AUTO")]
    /\ budget' = [budget EXCEPT !.calls = @ - 1]
    /\ UNCHANGED <<AckVars, CoordVars, cancel_auto_reset, auto_reset_time, PollVars>>

\* switch.py:69: `for attempt in range(retry_attempts)` has no further round.
LoopExhaustedLate(attempt) == attempt >= retry_attempts

LoopExhausted(attempt) == attempt + 1 >= retry_attempts

\* switch.py:96: the notifications the failure of attempt `attempt` raises.
NotifiesEachFailure(attempt) == 1

NotifiesOnFailure(attempt) == IF LoopExhausted(attempt) THEN 1 ELSE 0

\* switch.py:82-84: the process after a SUCCESS acknowledgement, awaiting
\* coordinator.async_request_refresh().
OnSuccessNoRefresh(pr) ==
    [pr EXCEPT !.pc = "refresh", !.outcome = "SUCCESS"]

OnSuccess(pr) ==
    [pr EXCEPT !.pc = "refresh", !.outcome = "SUCCESS", !.refreshed = @ + 1]

\* switch.py:85-96: what a failed attempt (and, after the last one, the
\* notification) does to the polled state e: it is logged, the user is
\* notified, and no field is written.
command_failed_unavailable(e) == [e EXCEPT !.available = FALSE]

command_failed(e) == e

\* The handler of pr is async_turn_on in its last attempt: if that fails, the
\* handler goes on to switch.py:105 in the same step.
ReadsAutoDelay(pr) == pr.kind = "on" /\ LoopExhausted(pr.attempt)

\* switch.py:76-94 for the key of the switch: how an attempt ends for each
\* answer the device may give.
AttemptOutcomes == { <<r, AttemptOutcome(r, SwitchKey)>> : r \in Responses }

OutcomeOf(r) == (CHOOSE e \in AttemptOutcomes : e[1] = r)[2]

\* switch.py:76-96: the response to the request of process p arrives.
SendCommandAttempt(p, r, auto_delay) ==
    LET out == OutcomeOf(r)
        pr  == [procs[p] EXCEPT !.rejected = (out = "RESPONSE_ERROR"),
                                !.notified = @ + (IF out = "SUCCESS" THEN 0
                                                  ELSE NotifiesOnFailure(procs[p].attempt))]
    IN  /\ procs[p].pc = "request"
        /\ LoopFreeFor(p)
        /\ auto_delay # 0 => (out # "SUCCESS" /\ ReadsAutoDelay(pr))
        /\ out # "SUCCESS" => budget.faults > 0
        /\ budget' = IF out = "SUCCESS" THEN budget
                     ELSE [budget EXCEPT !.faults = @ - 1]
        /\ IF out = "SUCCESS"
           THEN /\ procs' = [procs EXCEPT ![p] = OnSuccess(pr)]
                /\ UNCHANGED <<cancel_auto_reset, auto_reset_time>>
           ELSE IF ~LoopExhausted(pr.attempt)
           THEN \* switch.py:69-74: next round, asyncio.sleep(wait_time)
                /\ procs' = [procs EXCEPT ![p] =
                       [pr EXCEPT !.pc = "sleep", !.attempt = @ + 1,
                                  !.timer = wait_time(pr.attempt + 1),
                                  !.waits = Append(@, wait_time(pr.attempt + 1))]]
                /\ UNCHANGED <<cancel_auto_reset, auto_reset_time>>
           ELSE \* switch.py:96: after the loop, then the handler goes on
                Continue(p, [pr EXCEPT !.outcome = "FAILED"], auto_delay)
        /\ entity' = IF out = "SUCCESS" THEN entity ELSE command_failed(entity)
        /\ UNCHANGED <<AckVars, CoordVars, poll, entity_notifications>>

\* switch.py:74-77: the backoff sleep is over, the next request is sent.
BackoffElapsed(p) ==
    /\ procs[p].pc = "sleep"
    /\ procs[p].timer = 0
    /\ LoopFreeFor(p)
    /\ procs' = [procs EXCEPT ![p] = [@ EXCEPT !.pc = "request", !.requests = @ + 1,
                                              !.rejected = FALSE]]
    /\ UNCHANGED <<AckVars, CoordVars, cancel_auto_reset, auto_reset_time, PollVars, budget>>

\* switch.py:83-84: async_request_refresh returned, _send_command returns.
RefreshRequested(p, auto_delay) ==
    /\ procs[p].pc = "refresh"
    /\ LoopFreeFor(p)
    /\ auto_delay # 0 => procs[p].kind = "on"
    /\ Continue(p, procs[p], auto_delay)
    /\ UNCHANGED <<AckVars, CoordVars, PollVars, budget>>

\* switch.py:119-120: the delay is over, the task calls async_turn_auto().
AutoResetFires(t) ==
    /\ procs[t].pc = "delay"
    /\ procs[t].timer = 0
    /\ LoopFreeFor(t)
    /\ procs' = [procs EXCEPT ![t] = [@ EXCEPT !.pc = "request", !.requests = 1,
                                               !.duration = {0},
                                               !.last_value = {0}]]
    /\ UNCHANGED <<AckVars, CoordVars, cancel_auto_reset, auto_reset_time, PollVars, budget>>

(***************************************************************************)
(* The polled entity: VioletPoolControllerEntity.async_update (entity.py). *)
(* Home Assistant runs one update of an entity at a time.                  *)
(***************************************************************************)
MaxPollFaults == 6

\* entity.py:11-14
RETRY_LIMIT == 3
CACHE_DURATION == 10
NOTIFY_RETRY_LIMIT == 2
VALID_RESPONSE_KEYS == <<"fw", "SW_VERSION", "pH_value", "orp_value">>

\* entity_description.key of the modelled entity.
EntityKey == "PUMP"

ValidKeySet == {VALID_RESPONSE_KEYS[i] : i \in 1..Len(VALID_RESPONSE_KEYS)}

\* Readings get_data() may return: complete with PUMP 1 or 0, one without
\* `fw`, one whose `orp_value` is null, and the empty object.
Complete(v) == [k \in ValidKeySet \cup {EntityKey} |-> IF k = EntityKey THEN {v} ELSE {1}]

Readings ==
    { Complete(1), Complete(0),
      [k \in (ValidKeySet \ {"fw"}) \cup {EntityKey} |-> {1}],
      [Complete(1) EXCEPT !["orp_value"] = None],
      [k \in {} |-> None] }

PollResponses ==
    [kind : {"reading"}, data : Readings]
    \cup [kind : {"ClientError", "TimeoutError", "KeyError", "ValueError", "Exception"},
          data : {[k \in {} |-> None]}]

\* entity.py:132-138
RECURSIVE ValidateFrom(_, _)
ValidateFrom(response, i) ==
    IF i > Len(VALID_RESPONSE_KEYS) THEN TRUE
    ELSE IF VALID_RESPONSE_KEYS[i] \notin DOMAIN response
            \/ response[VALID_RESPONSE_KEYS[i]] = None
         THEN FALSE
         ELSE ValidateFrom(response, i + 1)

validate_response(response) == ValidateFrom(response, 1)

\* dict.get(key): the value, or None for a missing key.
Get(response, key) == IF key \in DOMAIN response THEN response[key] ELSE None

\* bool(dict): an empty dict is falsy.
Truthy(response) == DOMAIN response # {}

\* entity.py:89: wait_time = 2 ** attempt
poll_wait_time(attempt) == Pow2(attempt)

\* entity.py:87: `for attempt in range(RETRY_LIMIT)` has no further round.
PollLoopExhausted(attempt) == attempt + 1 >= RETRY_LIMIT

\* entity.py:115: the exceptions the first except clause catches; a response
\* that fails validation raises ValueError (entity.py:113).
Retryable == {"ClientError", "TimeoutError", "KeyError", "ValueError"}

InitEntity ==
    [state |-> None, available |-> TRUE, last_update_successful |-> FALSE,
     last_error |-> None, retry_attempts |-> 0,
     cached_data |-> None, cache_left |-> None]

\* elapsed: seconds since `now` was read at entity.py:79, counted up to
\* CACHE_DURATION, beyond which the expiry computed from it is in the past.
\* outcome is how the latest tick ended ("CACHED": served from the cache at
\* entity.py:82-85), error the exception its last attempt raised.
IdlePoll ==
    [pc |-> "idle", attempt |-> 0, timer |-> 0, elapsed |-> 0,
     waits |-> <<>>, requests |-> 0, outcome |-> "none", error |-> None]

PollEnded(outcome, error) == [IdlePoll EXCEPT !.outcome = outcome, !.error = error]

\* entity.py:82: the cached data is used.
CacheFreshNoExpiry ==
    \E d \in entity.cached_data : Truthy(d)

CacheFresh ==
    /\ \E d \in entity.cached_data : Truthy(d)
    /\ \E left \in entity.cache_left : left > 0

\* entity.py:100-101: the response is cached until `now` + CACHE_DURATION,
\* `now` being the start of the tick, `elapsed` seconds ago.
cache_response(e, data, elapsed) ==
    [e EXCEPT !.cached_data = {data}, !.cache_left = {CACHE_DURATION - elapsed}]

\* entity.py:105-109
update_succeeded(e, data) ==
    [e EXCEPT !.state = Get(data, EntityKey), !.available = TRUE,
              !.last_update_successful = TRUE, !.last_error = None,
              !.retry_attempts = 0]

\* entity.py:116-119
update_failed_stays_available(e, error) ==
    [e EXCEPT !.last_error = {error}, !.retry_attempts = @ + 1]

update_failed(e, error) ==
    [e EXCEPT !.last_error = {error}, !.retry_attempts = @ + 1,
              !.available = FALSE]

\* entity.py:122-124
update_aborted_counted(e, error) ==
    [e EXCEPT !.last_error = {error}, !.retry_attempts = @ + 1,
              !.available = FALSE]

update_aborted(e, error) ==
    [e EXCEPT !.last_error = {error}, !.available = FALSE]

\* entity.py:77-97: a poll tick starts async_update.
async_update ==
    /\ budget.polls
    /\ poll.pc = "idle"
    /\ LoopFreeFor(0)
    /\ IF CacheFresh
       THEN \* entity.py:84, 140-145: _update_state(self._cached_data)
            /\ entity' = [entity EXCEPT
                   !.state = Get(CHOOSE d \in entity.cached_data : TRUE, EntityKey)]
            /\ poll' = PollEnded("CACHED", None)
       ELSE /\ poll' = [IdlePoll EXCEPT !.pc = "request", !.requests = 1]
            /\ UNCHANGED entity
    /\ UNCHANGED <<AckVars, CoordVars, SwitchVars, entity_notifications, budget>>

\* entity.py:96-130: get_data() returns or raises for the running attempt.
PollAttempt(r) ==
    LET stored == IF r.kind = "reading"
                  THEN cache_response(entity, r.data, poll.elapsed)
                  ELSE entity
        ok     == r.kind = "reading" /\ validate_response(r.data)
        error  == IF r.kind = "reading" THEN "ValueError" ELSE r.kind
    IN  /\ poll.pc = "request"
        /\ LoopFreeFor(0)
        /\ ~ok => budget.faults > 0
        /\ budget' = IF ok THEN budget ELSE [budget EXCEPT !.faults = @ - 1]
        /\ IF ok
           THEN \* entity.py:104-111
                /\ entity' = update_succeeded(stored, r.data)
                /\ poll' = PollEnded("SUCCESS", None)
                /\ entity_notifications' = [entity_notifications EXCEPT !.episode = 0]
           ELSE IF error \in Retryable
           THEN \* entity.py:115-119, 127-128, then the next round or line 130
                /\ entity' = update_failed(stored, error)
                /\ entity_notifications' =
                       IF poll.attempt >= NOTIFY_RETRY_LIMIT
                       THEN [all |-> entity_notifications.all + 1,
                             episode |-> entity_notifications.episode + 1]
                       ELSE entity_notifications
                /\ poll' = IF PollLoopExhausted(poll.attempt)
                           THEN PollEnded("FAILED", {error})
                           ELSE [poll EXCEPT
                                   !.pc = "sleep", !.attempt = @ + 1,
                                   !.error = {error},
                                   !.timer = poll_wait_time(poll.attempt + 1),
                                   !.waits = Append(@, poll_wait_time(poll.attempt + 1))]
           ELSE \* entity.py:121-125
                /\ entity' = update_aborted(stored, error)
                /\ poll' = PollEnded("UNEXPECTED", {error})
                /\ UNCHANGED entity_notifications
        /\ UNCHANGED <<AckVars, CoordVars, SwitchVars>>

\* entity.py:92-97: the backoff sleep is over, the next request is sent.
PollBackoffElapsed ==
    /\ poll.pc = "sleep"
    /\ poll.timer = 0
    /\ LoopFreeFor(0)
    /\ poll' = [poll EXCEPT !.pc = "request", !.requests = @ + 1]
    /\ UNCHANGED <<AckVars, CoordVars, SwitchVars, entity, entity_notifications, budget>>

(***************************************************************************)
(* The state the switches show: coordinator.data, read by each switch      *)
(* through its own cache (switch.py:43-61, 139-150).  The body of          *)
(* _async_update_data is not part of the source (__init__.py:151-154); a   *)
(* refresh is modelled as the poll of spec.md section 4.5: it replaces     *)
(* coordinator.data by the reading it fetched.                             *)
(***************************************************************************)
MaxRefreshes == 1

\* switch.py:34
cache_duration == 10

\* switch.py:197-200: the keys of the two switches.
SwitchKeys == {"PUMP", "LIGHT"}

\* The values the device reports for a function: 0 (AUTO), 1 and 4 (ON),
\* and 2, one of the others.
StateValues(k) == IF k = "PUMP" THEN {0, 1, 2, 4} ELSE {0, 1}

\* A reading has a value for every switch key, or lacks PUMP.
StateReadings ==
    { [k \in D |-> {f[k]}] :
        f \in { g \in [SwitchKeys -> 0..4] : \A k \in SwitchKeys : g[k] \in StateValues(k) },
        D \in {SwitchKeys, SwitchKeys \ {"PUMP"}} }

\* switch.py:163: a switch exists for the keys the first reading has.
FirstReadings == { r \in StateReadings : DOMAIN r = SwitchKeys }

\* switch.py:35-36: nothing cached, _last_cache_update is None.  age counts
\* the seconds since _last_cache_update, up to cache_duration + 1; poll is
\* the poll whose reading the cached state was taken from.
EmptyCache == [state |-> None, read |-> FALSE, age |-> 0, poll |-> 0]

\* switch.py:46: the cached state is returned.
SwitchCacheFresh(k) ==
    /\ cache[k].state # None
    /\ cache[k].read
    /\ cache[k].age < cache_duration

\* switch.py:43-53: what _get_switch_state of switch k returns now.
SwitchState(k) ==
    IF SwitchCacheFresh(k) THEN cache[k].state ELSE Get(coordinator.data, k)

\* The poll the state returned by _get_switch_state comes from.
SwitchStatePoll(k) ==
    IF SwitchCacheFresh(k) THEN cache[k].poll ELSE coordinator.poll

\* switch.py:55-61
is_on(state) == state \in {{1}, {4}}

is_auto(state) == state = {0}

\* switch.py:139-144, with is_on: what a consumer is shown for a state.
status_detail(state) == IF is_auto(state) THEN "AUTO" ELSE "MANUAL"

Shown(state) == [is_on |-> is_on(state), status_detail |-> status_detail(state)]

\* switch.py:43-53: a consumer reads is_on, is_auto or the attributes of
\* switch k.
get_switch_state(k) ==
    /\ cache' = IF SwitchCacheFresh(k) THEN cache
                ELSE [cache EXCEPT ![k] = [state |-> Get(coordinator.data, k),
                                           read |-> TRUE, age |-> 0,
                                           poll |-> coordinator.poll]]
    /\ UNCHANGED <<AckVars, SwitchVars, PollVars, service, coordinator, sensor, flow,
                   budget>>

\* A refresh of the coordinator (periodic, or the one a dispatch requested at
\* switch.py:83 and is waiting for) ends with a new reading.  trigger holds
\* the dispatches that were waiting for it.
coordinator_refresh(reading) ==
    /\ budget.refreshes > 0
    /\ budget' = [budget EXCEPT !.refreshes = @ - 1]
    /\ coordinator' = [data |-> reading, poll |-> coordinator.poll + 1,
                       trigger |-> {p \in ProcIds : procs[p].pc = "refresh"}]
    /\ UNCHANGED <<AckVars, SwitchVars, PollVars, service, cache, sensor, flow>>

(***************************************************************************)
(* The command operations of the coordinator, called by the services of    *)
(* the domain (__init__.py:69-106, 156-211).                               *)
(***************************************************************************)
MaxServices == 1

IdleService ==
    [pc |-> "free", action |-> "none", requests |-> 0, ack_ok |-> FALSE,
     outcome |-> "none", notified |-> 0]

\* A service call of the domain may arrive.
ServiceArrives ==
    /\ budget.services > 0
    /\ service.pc \in {"free", "done"}
    /\ budget' = [budget EXCEPT !.services = @ - 1]
    /\ UNCHANGED <<AckVars, SwitchVars, PollVars, coordinator, cache, sensor, flow>>

\* __init__.py:156-169
turn_auto ==
    /\ ServiceArrives
    /\ service' = [IdleService EXCEPT !.pc = "request", !.action = "AUTO", !.requests = 1]

\* __init__.py:175-188
turn_on ==
    /\ ServiceArrives
    /\ service' = [IdleService EXCEPT !.pc = "request", !.action = "ON", !.requests = 1]

\* __init__.py:194-207
turn_off ==
    /\ ServiceArrives
    /\ service' = [IdleService EXCEPT !.pc = "request", !.action = "OFF", !.requests = 1]

\* __init__.py:168-173 (and 187-192, 206-211): the request ends.  The body
\* is only logged; any exception, raise_for_status included, is logged and
\* the operation returns.  ack_ok records whether the acknowledgement check
\* of the switch would have passed on this response.
ServiceResponse(r) ==
    LET raised == r.kind # "response" \/ r.status \notin 200..299 IN
    /\ service.pc = "request"
    /\ raised => budget.faults > 0
    /\ budget' = IF raised THEN [budget EXCEPT !.faults = @ - 1] ELSE budget
    /\ service' = [service EXCEPT
                     !.pc = "done",
                     !.ack_ok = (AttemptOutcome(r, SwitchKey) = "SUCCESS"),
                     !.outcome = IF raised THEN "FAILED" ELSE "SUCCESS"]
    /\ UNCHANGED <<AckVars, SwitchVars, PollVars, coordinator, cache, sensor, flow>>

(***************************************************************************)
(* The binary sensors (binary_sensor.py): each reads its key of            *)
(* coordinator.data whenever is_on or icon is evaluated.                   *)
(***************************************************************************)
MaxSensorRefreshes == 2

\* binary_sensor.py:65-70, two of the four keys.
SensorKeys == {"PUMP_STATE", "SOLAR_STATE"}

\* What coordinator.data may hold for the sensor keys: a key is missing, or
\* its value is null, 0 or 1.
SensorReadings ==
    UNION { [D -> {None, {0}, {1}}] : D \in SUBSET SensorKeys }

\* binary_sensor.py:26; logged counts the warnings the sensor logged, warned
\* those since it last read a valid value, is_on is what the last read
\* returned.
NewSensor ==
    [has_logged_none_state |-> FALSE, is_on |-> FALSE, warned |-> 0, logged |-> 0]

\* binary_sensor.py:31-35 without line 34: the flag is never set.
missing_state_unflagged(sn) ==
    [sn EXCEPT !.is_on = FALSE,
               !.warned = IF sn.has_logged_none_state THEN @ ELSE @ + 1,
               !.logged = IF sn.has_logged_none_state THEN @ ELSE @ + 1]

\* binary_sensor.py:31-35: the value is None.
missing_state(sn) ==
    [sn EXCEPT !.is_on = FALSE,
               !.warned = IF sn.has_logged_none_state THEN @ ELSE @ + 1,
               !.logged = IF sn.has_logged_none_state THEN @ ELSE @ + 1,
               !.has_logged_none_state = TRUE]

\* binary_sensor.py:36-39: a value was read.
valid_state(sn, state) ==
    [sn EXCEPT !.is_on = (state = {1}), !.warned = 0,
               !.has_logged_none_state = FALSE]

\* binary_sensor.py:28-39, called by is_on (41-44) and icon (46-49).
get_sensor_state(k) ==
    LET state == Get(coordinator.data, k) IN
    /\ sensor' = [sensor EXCEPT ![k] = IF state = None THEN missing_state(@)
                                       ELSE valid_state(@, state)]
    /\ UNCHANGED <<AckVars, SwitchVars, PollVars, service, coordinator, cache, flow,
                   budget>>

(***************************************************************************)
(* The reading fetch of the config flow (config_flow.py:45-84).            *)
(***************************************************************************)
MaxFetches == 2
MaxFetchAttempts == 3

\* config_flow.py:36
FLOW_CACHE_DURATION == 30

FetchData == {"reading1", "reading2"}

\* What one request of the fetch ends with: the JSON body, or an error of
\* one of the classes the function tells apart (config_flow.py:70-84).
FetchResponses ==
    [kind : {"json"}, data : FetchData]
    \cup [kind : {"ClientConnectionError", "ClientResponseError", "TimeoutError",
                  "Exception"}, data : {"none"}]

\* No call yet; cache is the dict of the caller, None while it is empty,
\* else its data and the seconds left until timestamp + CACHE_DURATION.
NoFetch ==
    [pc |-> "idle", calls |-> 0, retry_attempts |-> 0, attempt |-> 0,
     requests |-> 0, retried_after |-> {}, cause |-> None, result |-> None,
     error |-> None, cache |-> None]

\* config_flow.py:48: "timestamp" in cache and timestamp + CACHE_DURATION > now
FetchCacheFresh(c) == \E e \in c : e.left > 0

\* config_flow.py:68
store_fetched(data) == {[data |-> data, left |-> FLOW_CACHE_DURATION]}

\* config_flow.py:72 with the attempt counted from 1.
FetchLastAttemptLate(attempt, n) == attempt = n

\* config_flow.py:72: if attempt + 1 == retry_attempts
FetchLastAttempt(attempt, n) == attempt + 1 = n

\* config_flow.py:45-52, 119-129: a call with retry_attempts = n; the caller
\* passes a new empty dict (config_flow.py:125) or the dict of the call
\* before.
fetch_api_data(n, new_dict) ==
    LET c == IF new_dict THEN None ELSE flow.cache
        call == [NoFetch EXCEPT !.calls = flow.calls + 1, !.retry_attempts = n,
                                !.cache = c]
    IN  /\ flow.pc \in {"idle", "returned", "raised"}
        /\ flow.calls < MaxFetches
        /\ flow' = IF FetchCacheFresh(c)
                   THEN \* config_flow.py:48-50
                        [call EXCEPT !.pc = "returned",
                                     !.result = {e.data : e \in c}]
                   ELSE IF n = 0
                   THEN \* range(0) is empty: the function ends without return
                        [call EXCEPT !.pc = "returned"]
                   ELSE [call EXCEPT !.pc = "request", !.requests = 1]
        /\ UNCHANGED <<AckVars, SwitchVars, PollVars, service, coordinator, cache,
                       sensor, budget>>

\* config_flow.py:54-84: the request of the running attempt ends.
FetchAttempt(r) ==
    /\ flow.pc = "request"
    /\ flow' =
         IF r.kind = "json"
         THEN \* config_flow.py:66-69
              [flow EXCEPT !.pc = "returned", !.result = {r.data},
                           !.cache = store_fetched(r.data)]
         ELSE IF r.kind = "ClientConnectionError"
         THEN \* config_flow.py:70-73
              IF FetchLastAttempt(flow.attempt, flow.retry_attempts)
              THEN [flow EXCEPT !.pc = "raised", !.cause = {r.kind},
                                !.error = {"ValueError"}]
              ELSE IF flow.attempt + 1 < flow.retry_attempts
              THEN [flow EXCEPT !.attempt = @ + 1, !.requests = @ + 1,
                                !.cause = {r.kind},
                                !.retried_after = @ \cup {r.kind}]
              ELSE \* the loop is over: the function ends without return
                   [flow EXCEPT !.pc = "returned", !.cause = {r.kind}]
         ELSE \* config_flow.py:74-84
              [flow EXCEPT !.pc = "raised", !.cause = {r.kind},
                           !.error = {"ValueError"}]
    /\ UNCHANGED <<AckVars, SwitchVars, PollVars, service, coordinator, cache,
                   sensor, budget>>

(***************************************************************************)
(* Time.  One second passes: every running timer (asyncio.sleep) counts    *)
(* down, as do the time left to the displayed deadline of the switch       *)
(* (switch.py:146-147, never shown below 0) and to the cache expiry; the   *)
(* age of the `now` of a running poll counts up.                           *)
(***************************************************************************)
Sleeping(p) == procs[p].pc \in {"sleep", "delay"}

CountDown(field) == {IF left > 0 THEN left - 1 ELSE 0 : left \in field}

Tick ==
    /\ \/ \E p \in ProcIds : Sleeping(p) /\ procs[p].timer > 0
       \/ \E left \in auto_reset_time : left > 0
       \/ \E left \in entity.cache_left : left > 0
       \/ poll.pc # "idle" /\ poll.elapsed < CACHE_DURATION
       \/ poll.pc = "sleep" /\ poll.timer > 0
       \/ \E k \in SwitchKeys : cache[k].state # None /\ cache[k].age <= cache_duration
       \/ \E c \in flow.cache : c.left > 0
    /\ procs' = [p \in ProcIds |->
                   IF Sleeping(p) /\ procs[p].timer > 0
                   THEN [procs[p] EXCEPT !.timer = @ - 1,
                                         !.waited = IF procs[p].pc = "delay"
                                                    THEN @ + 1 ELSE @]
                   ELSE procs[p]]
    /\ auto_reset_time' = CountDown(auto_reset_time)
    /\ entity' = [entity EXCEPT !.cache_left = CountDown(@)]
    /\ poll' = IF poll.pc = "idle" THEN poll
               ELSE [poll EXCEPT
                       !.timer = IF @ > 0 THEN @ - 1 ELSE 0,
                       !.elapsed = IF @ < CACHE_DURATION THEN @ + 1 ELSE @]
    /\ cache' = [k \in SwitchKeys |->
                   IF cache[k].state # None /\ cache[k].age <= cache_duration
                   THEN [cache[k] EXCEPT !.age = @ + 1]
                   ELSE cache[k]]
    /\ flow' = [flow EXCEPT !.cache = {[c EXCEPT !.left = IF @ > 0 THEN @ - 1 ELSE 0]
                                        : c \in @}]
    /\ UNCHANGED <<AckVars, service, coordinator, sensor, cancel_auto_reset,
                   entity_notifications, budget>>

(***************************************************************************)
(* Specifications.                                                         *)
(***************************************************************************)
InitSwitch ==
    /\ procs = [p \in ProcIds |-> FreeProc]
    /\ cancel_auto_reset = None
    /\ auto_reset_time = None

InitPoll ==
    /\ entity = InitEntity
    /\ poll = IdlePoll
    /\ entity_notifications = [all |-> 0, episode |-> 0]

\* After setup: the first refresh is done (__init__.py:59), no switch has
\* been read.
InitCoord ==
    /\ service = IdleService
    /\ sensor = [k \in SensorKeys |-> NewSensor]
    /\ flow = NoFetch
    /\ coordinator \in [data : FirstReadings, poll : {0}, trigger : {{}}]
    /\ cache = [k \in SwitchKeys |-> EmptyCache]

\* In the specifications that read no switch state the first reading is
\* immaterial.
InitCoordUnread ==
    /\ InitCoord
    /\ coordinator.data = [k \in SwitchKeys |-> {0}]

\* The switch alone, under concurrent service calls.
Init ==
    /\ ackText = <<>> /\ ackKey = SwitchKey /\ ackResult = "none"
    /\ InitSwitch
    /\ InitPoll
    /\ InitCoordUnread
    /\ budget = [calls |-> MaxCalls, faults |-> MaxFaults, polls |-> FALSE, services |-> 0, refreshes |-> 0]

NextSwitch ==
    \/ \E c \in CallIds : async_turn_on(c)
    \/ \E c \in CallIds : async_turn_off(c)
    \/ \E c \in CallIds : async_turn_auto(c)
    \/ \E p \in ProcIds, r \in Responses, d \in AutoDelays :
           SendCommandAttempt(p, r, d)
    \/ \E p \in ProcIds : BackoffElapsed(p)
    \/ \E p \in ProcIds, d \in AutoDelays : RefreshRequested(p, d)
    \/ \E t \in TaskIds : AutoResetFires(t)

Next == NextSwitch \/ Tick

Spec == Init /\ [][Next]_vars

\* The polled entity alone.
InitPollOnly ==
    /\ ackText = <<>> /\ ackKey = SwitchKey /\ ackResult = "none"
    /\ InitSwitch
    /\ InitPoll
    /\ InitCoordUnread
    /\ budget = [calls |-> 0, faults |-> MaxPollFaults, polls |-> TRUE, services |-> 0, refreshes |-> 0]

NextPoll ==
    \/ async_update
    \/ \E r \in PollResponses : PollAttempt(r)
    \/ PollBackoffElapsed
    \/ Tick

SpecPoll == InitPollOnly /\ [][NextPoll]_vars

\* The two retry loops: a run exercises either one service call of the
\* switch or the polled entity (they share no state).
InitRetry ==
    /\ ackText = <<>> /\ ackKey = SwitchKey /\ ackResult = "none"
    /\ InitSwitch
    /\ InitPoll
    /\ InitCoordUnread
    /\ budget \in {[calls |-> 1, faults |-> MaxFaults, polls |-> FALSE, services |-> 0, refreshes |-> 0],
                   [calls |-> 0, faults |-> MaxFaults, polls |-> TRUE, services |-> 0, refreshes |-> 0]}

NextRetry == NextSwitch \/ NextPoll

SpecRetry == InitRetry /\ [][NextRetry]_vars

\* One service call of the switch while the entity is polled; the failures
\* the device may produce are shared between the two.
InitFrame ==
    /\ ackText = <<>> /\ ackKey = SwitchKey /\ ackResult = "none"
    /\ InitSwitch
    /\ InitPoll
    /\ InitCoordUnread
    /\ budget = [calls |-> 1, faults |-> MaxFaults, polls |-> TRUE,
                 services |-> 0, refreshes |-> 0]

SpecFrame == InitFrame /\ [][NextRetry]_vars

\* The same under the scheduling the event loop guarantees: every request
\* ends (with a response, an error or, after the timeout of switch.py:76 and
\* entity.py:96, a TimeoutError), every coroutine whose await is over is
\* resumed, and time passes.  Service calls and poll ticks may stay away.
FairRetry ==
    /\ SpecRetry
    /\ \A p \in ProcIds :
           /\ WF_vars(\E r \in Responses, d \in AutoDelays : SendCommandAttempt(p, r, d))
           /\ WF_vars(BackoffElapsed(p))
           /\ WF_vars(\E d \in AutoDelays : RefreshRequested(p, d))
    /\ WF_vars(\E r \in PollResponses : PollAttempt(r))
    /\ WF_vars(PollBackoffElapsed)
    /\ WF_vars(Tick)

\* The switches as consumers see them: reads of the two switches, refreshes
\* of the coordinator, and one OFF command that the device acknowledges.
InitRead ==
    /\ ackText = <<>> /\ ackKey = SwitchKey /\ ackResult = "none"
    /\ InitSwitch
    /\ InitPoll
    /\ InitCoord
    /\ budget = [calls |-> 1, faults |-> 0, polls |-> FALSE, services |-> 0,
                 refreshes |-> MaxRefreshes]

NextRead ==
    \/ \E c \in CallIds : async_turn_off(c)
    \/ \E p \in ProcIds, r \in Responses : SendCommandAttempt(p, r, 0)
    \/ \E p \in ProcIds : RefreshRequested(p, 0)
    \/ \E k \in SwitchKeys : get_switch_state(k)
    \/ \E reading \in StateReadings : coordinator_refresh(reading)
    \/ Tick

SpecRead == InitRead /\ [][NextRead]_vars

\* A command of the switch next to commands of the coordinator, answered by
\* the same device.
InitService ==
    /\ ackText = <<>> /\ ackKey = SwitchKey /\ ackResult = "none"
    /\ InitSwitch
    /\ InitPoll
    /\ InitCoordUnread
    /\ budget = [calls |-> 1, faults |-> MaxFaults, polls |-> FALSE,
                 services |-> MaxServices, refreshes |-> 0]

NextService ==
    \/ NextSwitch
    \/ turn_auto
    \/ turn_on
    \/ turn_off
    \/ \E r \in Responses : ServiceResponse(r)
    \/ Tick

SpecService == InitService /\ [][NextService]_vars

\* The acknowledgement check alone, on every text of at most MaxAtoms atoms.
InitAck ==
    /\ ackText = <<>>
    /\ ackKey \in Keys
    /\ ackResult = "none"
    /\ InitSwitch
    /\ InitPoll
    /\ InitCoordUnread
    /\ budget = [calls |-> 0, faults |-> 0, polls |-> FALSE, services |-> 0, refreshes |-> 0]

\* switch.py:79: the body of a 2xx response is read, atom after atom.
ReceiveText(a) ==
    /\ ackResult = "none"
    /\ Len(ackText) < MaxAtoms
    /\ ackText' = Append(ackText, a)
    /\ UNCHANGED <<ackKey, ackResult, SwitchVars, PollVars, CoordVars, budget>>

\* switch.py:80-86: the attempt whose response has the body ackText ends.
ParseAck ==
    /\ ackResult = "none"
    /\ ackResult' = IF AckOk(Flatten(ackText), ackKey)
                    THEN "SUCCESS" ELSE "PROTOCOL_MISMATCH"
    /\ UNCHANGED <<ackText, ackKey, SwitchVars, PollVars, CoordVars, budget>>

NextAck == (\E a \in Atoms : ReceiveText(a)) \/ ParseAck

SpecAck == InitAck /\ [][NextAck]_vars

\* The binary sensors over refreshes of the coordinator.
InitSensor ==
    /\ ackText = <<>> /\ ackKey = SwitchKey /\ ackResult = "none"
    /\ InitSwitch
    /\ InitPoll
    /\ service = IdleService
    /\ coordinator \in [data : SensorReadings, poll : {0}, trigger : {{}}]
    /\ cache = [k \in SwitchKeys |-> EmptyCache]
    /\ sensor = [k \in SensorKeys |-> NewSensor]
    /\ flow = NoFetch
    /\ budget = [calls |-> 0, faults |-> 0, polls |-> FALSE, services |-> 0,
                 refreshes |-> MaxSensorRefreshes]

NextSensor ==
    \/ \E k \in SensorKeys : get_sensor_state(k)
    \/ \E reading \in SensorReadings : coordinator_refresh(reading)

SpecSensor == InitSensor /\ [][NextSensor]_vars

\* Calls of fetch_api_data by the config flow.
InitFlow ==
    /\ ackText = <<>> /\ ackKey = SwitchKey /\ ackResult = "none"
    /\ InitSwitch
    /\ InitPoll
    /\ InitCoordUnread
    /\ budget = [calls |-> 0, faults |-> 0, polls |-> FALSE, services |-> 0,
                 refreshes |-> 0]

NextFlow ==
    \/ \E n \in 0 .. MaxFetchAttempts, new_dict \in BOOLEAN : fetch_api_data(n, new_dict)
    \/ \E r \in FetchResponses : FetchAttempt(r)
    \/ Tick

SpecFlow == InitFlow /\ [][NextFlow]_vars

(***************************************************************************)
(* Claims.                                                                 *)
(***************************************************************************)
AckTokens == {W_SWITCHED_TO, W_ON, W_OFF}

\* The three conditions of the acknowledgement format on a list of lines.
ValidAck(lines, key) ==
    /\ Len(lines) >= 3
    /\ lines[1] = W_OK
    /\ lines[2] = key
    /\ \E tok \in AckTokens : Contains(tok, lines[3])

\* C1 as stated: an attempt is a SUCCESS exactly when the response text, cut
\* into lines at its newlines, has at least 3 lines, line 1 is OK, line 2 is
\* the expected key and line 3 contains SWITCHED_TO, ON or OFF; every other
\* text is a PROTOCOL_MISMATCH.
C1_AckFormatOfRawLines ==
    ackResult # "none" =>
        /\ ackResult \in {"SUCCESS", "PROTOCOL_MISMATCH"}
        /\ ackResult = "SUCCESS" <=> ValidAck(SplitNL(Flatten(ackText)), ackKey)

\* C1 amended: the same, for the lines of the text after the whitespace
\* (blanks, newlines) before and after it has been stripped: leading blank
\* lines or blanks before OK do not make a valid acknowledgement a mismatch.
C1_AckFormatOfStrippedLines ==
    ackResult # "none" =>
        /\ ackResult \in {"SUCCESS", "PROTOCOL_MISMATCH"}
        /\ ackResult = "SUCCESS" <=>
               ValidAck(SplitNL(Strip(Flatten(ackText))), ackKey)

\* A text with leading whitespace was accepted.
C1_Witness ==
    /\ ackResult = "SUCCESS"
    /\ Head(Flatten(ackText)) \in Whitespace

\* C2: a reset that a later turn-on with auto-delay > 0 found pending when it
\* came to arm is cancelled: it never sends its AUTO command.
C2_SupersededResetNeverFires ==
    \A t \in TaskIds : procs[t].superseded => procs[t].pc \in {"delay", "cancelled"}

\* C3: a turn-on whose ON command ended without success arms no auto-reset.
C3_NoArmAfterFailedOn ==
    \A c \in CallIds :
        (procs[c].kind = "on" /\ procs[c].outcome = "FAILED")
            => procs[TaskOf(c)].pc = "free"

ExpectedWaits == <<2, 4>>

\* The waits scheduled so far are the first `attempt` of 2 s, 4 s, and the
\* k-th wait lies between request k and request k + 1.
BackoffAsExpected(pr) ==
    /\ pr.attempt \in 0..2
    /\ pr.waits = SubSeq(ExpectedWaits, 1, pr.attempt)
    /\ pr.pc = "sleep" => pr.requests = pr.attempt /\ pr.timer <= ExpectedWaits[pr.attempt]
    /\ pr.pc = "request" => pr.requests = pr.attempt + 1

\* C4: in a command dispatch and in a poll, no wait precedes attempt 1 and
\* the waits before attempts 2 and 3 are 2 and 4 seconds, in that order.
C4_BackoffWaits ==
    /\ \A p \in ProcIds : BackoffAsExpected(procs[p])
    /\ BackoffAsExpected(poll)

\* A dispatch is at its third request, after both waits.
C4_Witness ==
    \E p \in ProcIds :
        /\ procs[p].pc = "request"
        /\ procs[p].requests = 3
        /\ procs[p].waits = ExpectedWaits

\* C5: a reset that was pending when a turn-off was acknowledged never
\* sends its AUTO command.
C5_NoAutoAfterTurnOff ==
    \A t \in TaskIds : procs[t].off_seen => procs[t].pc \in {"delay", "cancelled"}

\* C6: once an auto-reset has fired and its AUTO dispatch has ended, the
\* cancel handle no longer refers to it.
C6_HandleClearedAfterFiring ==
    \A t \in TaskIds : procs[t].pc = "done" => t \notin cancel_auto_reset

\* C7: between two successful polls at most one notification is raised.
C7_OneNotificationPerEpisode == entity_notifications.episode <= 1

\* C8: a dispatch whose request was answered with a non-2xx status has ended
\* with that attempt.
C8_RejectionIsTerminal ==
    \A p \in ProcIds : procs[p].rejected => procs[p].pc \in {"done", "raised"}

C14_FlagsAfterPoll ==
    /\ poll.outcome = "FAILED" =>
           /\ entity.available = FALSE
           /\ poll.error # None
           /\ entity.last_error = poll.error
    /\ poll.outcome = "SUCCESS" =>
           /\ entity.available = TRUE
           /\ entity.last_error = None
           /\ entity.retry_attempts = 0

\* A poll failed three times, the last time on a timeout, after an earlier
\* poll had succeeded.
C14_Witness ==
    /\ poll.outcome = "FAILED"
    /\ entity.last_error = {"TimeoutError"}
    /\ entity.last_update_successful
    /\ entity.retry_attempts = RETRY_LIMIT

\* C18: the cache only ever holds a reading that passes validation.
C18_CacheHoldsValidReadings ==
    \A d \in entity.cached_data : validate_response(d)

\* The freshness a tick finds: a non-empty cached reading whose expiry lies
\* ahead.
FoundFresh ==
    /\ entity.cached_data # None
    /\ \A d \in entity.cached_data : DOMAIN d # {}
    /\ entity.cache_left # None
    /\ \A left \in entity.cache_left : left >= 1

\* A step that is a poll tick: it starts a poll or serves the tick from the
\* cache.
TickServed ==
    /\ poll.pc = "idle"
    /\ \/ poll'.pc = "request"
       \/ poll'.outcome = "CACHED" /\ <<poll, entity>>' # <<poll, entity>>

\* C19: a tick that finds the cached reading fresh sets the state from the
\* cache and sends no request; a tick that finds it missing, empty or stale
\* starts one poll, at its first attempt.
C19_TickFromCacheOrOnePoll ==
    [][TickServed =>
          IF FoundFresh
          THEN /\ poll'.pc = "idle" /\ poll'.outcome = "CACHED" /\ poll'.requests = 0
               /\ \A d \in entity.cached_data : entity'.state = Get(d, EntityKey)
               /\ entity'.cached_data = entity.cached_data
          ELSE /\ poll'.pc = "request" /\ poll'.requests = 1 /\ poll'.attempt = 0
               /\ entity' = entity]_vars

\* One tick was served from the cache after a poll had stored a reading, and
\* the cache has expired since: the next tick polls.
C19_Witness ==
    /\ poll.outcome = "CACHED"
    /\ entity.cache_left = {0}

\* A dispatch is in its retry loop, or awaits the refresh it requested.
Dispatching(p) == procs[p].pc \in {"request", "sleep", "refresh"}

\* C17: a dispatch and a poll send at most 3 requests, every failed attempt
\* of either kind counting as one of the three; the operation always ends,
\* and it ends by returning: the dispatch with a success or, after the
\* notification, a failure, the poll with a success or with the entity
\* marked unavailable and the error recorded.
C17_BoundedAndTerminates ==
    /\ [](\A p \in ProcIds :
             /\ procs[p].requests <= retry_attempts
             /\ Dispatching(p) /\ procs[p].outcome = "none" =>
                    procs[p].requests = procs[p].attempt + (IF procs[p].pc = "sleep" THEN 0 ELSE 1)
             /\ procs[p].pc \in {"done", "raised"} =>
                    /\ procs[p].outcome \in {"SUCCESS", "FAILED"}
                    /\ procs[p].outcome = "FAILED" => procs[p].notified = 1)
    /\ [](/\ poll.requests <= RETRY_LIMIT
          /\ poll.pc # "idle" =>
                 poll.requests = poll.attempt + (IF poll.pc = "sleep" THEN 0 ELSE 1)
          /\ poll.outcome \in {"FAILED", "UNEXPECTED"} =>
                 entity.available = FALSE /\ entity.last_error # None)
    /\ \A p \in ProcIds : Dispatching(p) ~> procs[p].pc \in {"done", "raised"}
    /\ (poll.pc # "idle") ~> (poll.pc = "idle")

\* A dispatch has returned after three failed attempts.
C17_Witness ==
    \E c \in CallIds :
        /\ procs[c].pc = "done"
        /\ procs[c].outcome = "FAILED"
        /\ budget.faults = MaxFaults - retry_attempts

\* What the claim has a state decode to.
Decoded(state) ==
    IF state \in {{1}, {4}} THEN "ON"
    ELSE IF state = {0} THEN "AUTO"
    ELSE "UNAVAILABLE"

\* C11: the state a switch has read is shown as ON exactly for 1 and 4, as
\* AUTO exactly for 0, and as neither on, off, manual nor auto for any other
\* value and for a missing key.
C11_DecodesToOneOfThree ==
    \A k \in SwitchKeys :
        cache[k].read =>
            /\ Decoded(cache[k].state) \in {"ON", "AUTO", "UNAVAILABLE"}
            /\ is_on(cache[k].state) <=> Decoded(cache[k].state) = "ON"
            /\ is_auto(cache[k].state) <=> Decoded(cache[k].state) = "AUTO"
            /\ Decoded(cache[k].state) = "UNAVAILABLE" =>
                   Shown(cache[k].state) \notin
                       [is_on : {FALSE}, status_detail : {"MANUAL"}]

\* C12: once the re-poll that an acknowledged OFF command of the PUMP switch
\* was waiting for has returned PUMP = 0, the state of the PUMP switch reads
\* as AUTO.
C12_ReadsAfterRepollDecodeAuto ==
    \A c \in CallIds :
        ( /\ procs[c].kind = "off"
          /\ procs[c].outcome = "SUCCESS"
          /\ c \in coordinator.trigger
          /\ Get(coordinator.data, "PUMP") = {0} )
        => is_auto(SwitchState("PUMP"))

\* C13: the states the switches return all come from the same poll.
C13_OneSnapshot ==
    \A k1, k2 \in SwitchKeys : SwitchStatePoll(k1) = SwitchStatePoll(k2)

\* C20: a cached state is used as long as its age is at most the cache
\* window, the age that equals the window included: no read at such an age
\* replaces it.
C20_FreshUpToWindow ==
    [][\A k \in SwitchKeys :
          (cache[k].state # None /\ cache[k].age \in 1..cache_duration)
              => cache'[k].age # 0]_vars

\* C16: a command operation of the coordinator ends like a dispatch of the
\* switch: accepted only on an acknowledgement that passes the three-line
\* check, and failed only after 3 attempts and with the notification.
C16_ServiceLikeDispatch ==
    service.pc = "done" =>
        /\ service.outcome = "SUCCESS" => service.ack_ok
        /\ service.outcome = "FAILED" =>
               service.requests = retry_attempts /\ service.notified = 1

\* A step in which an attempt of the dispatch of process p fails.
AttemptFails(p) ==
    /\ procs[p].pc = "request"
    /\ procs'[p].pc \in {"sleep", "done", "raised"}
    /\ procs'[p].outcome # "SUCCESS"

\* C15: the failed attempts of a dispatch, the last one with its
\* notification included, leave the availability flag, the cached reading
\* and the failure counter of the polled state, and the reading and caches
\* of the switches, as they were.
C15_FailedDispatchLeavesPollState ==
    [][(\E p \in ProcIds : AttemptFails(p)) =>
          /\ entity'.available = entity.available
          /\ entity'.cached_data = entity.cached_data
          /\ entity'.cache_left = entity.cache_left
          /\ entity'.retry_attempts = entity.retry_attempts
          /\ coordinator' = coordinator
          /\ cache' = cache]_vars

\* A dispatch has failed for good while the entity, polled before, is
\* available and holds a cached reading.
C15_Witness ==
    \E c \in CallIds :
        /\ procs[c].outcome = "FAILED"
        /\ procs[c].notified = 1
        /\ entity.available
        /\ entity.cached_data # None

\* C21: a reading stored by a successful poll starts its freshness window
\* at that moment: the whole of CACHE_DURATION is left to it, also when the
\* poll took time or succeeded after backoff waits.
C21_StoredReadingHasFullWindow ==
    [][(poll.pc = "request" /\ poll'.outcome = "SUCCESS")
          => entity'.cache_left = {CACHE_DURATION}]_vars

\* C29: an attempt that raises an error outside the retryable classes ends
\* the poll at once: the entity is unavailable, the error is recorded, and
\* neither the failure counter nor the notifications change.
C29_UnexpectedErrorStopsPoll ==
    [][(poll.pc = "request" /\ poll'.outcome = "UNEXPECTED") =>
          /\ poll'.pc = "idle"
          /\ poll'.requests = 0
          /\ entity'.available = FALSE
          /\ entity'.last_error = {"Exception"}
          /\ entity'.retry_attempts = entity.retry_attempts
          /\ entity_notifications' = entity_notifications]_vars

\* A poll was stopped by an unexpected error at its second attempt.
C29_Witness ==
    /\ poll.outcome = "UNEXPECTED"
    /\ entity.last_error = {"Exception"}
    /\ entity.retry_attempts = 1
    /\ ~entity.last_update_successful

\* C23: an auto-reset whose cancellation was requested before its AUTO
\* command went out sends no AUTO command: from its delay it never passes
\* on to the request, also when the delay has just expired.
C23_CancelledBeforeSendingSendsNothing ==
    [][\A t \in TaskIds :
          (procs[t].superseded /\ procs[t].pc = "delay")
              => procs'[t].pc # "request"]_vars

\* C24: the AUTO command of an auto-reset goes out only when the whole armed
\* delay has passed since arming, and it is the command AUTO with duration 0
\* and auxiliary value 0.
C24_ResetSendsAutoAfterDelay ==
    \A t \in TaskIds :
        procs[t].requests > 0 =>
            /\ procs[t].auto_delay > 0
            /\ procs[t].waited >= procs[t].auto_delay
            /\ procs[t].action = "AUTO"
            /\ procs[t].duration = {0}
            /\ procs[t].last_value = {0}

\* The request of an auto-reset is out, its delay has passed.
C24_Witness ==
    \E t \in TaskIds :
        /\ procs[t].pc = "request"
        /\ procs[t].requests = 1
        /\ procs[t].auto_delay > 0
        /\ procs[t].waited = procs[t].auto_delay

\* C27: whenever an auto-reset task is waiting to fire, the cancel handle of
\* the switch refers to that task, and so to no other.
C27_HandleRefersToWaitingTask ==
    \A t \in TaskIds : Pending(t) => cancel_auto_reset = {t}

\* A reset is waiting, its delay not over, while a later turn-on that came to
\* arm a reset has ended.
C27_Witness ==
    \E t \in TaskIds :
        /\ Pending(t)
        /\ procs[t].timer > 0
        /\ cancel_auto_reset = {t}
        /\ \E c \in CallIds : TaskOf(c) # t /\ procs[c].kind = "on"
                                /\ procs[c].pc = "raised"

Resetting(t) == procs[t].pc \in {"delay", "request", "sleep", "refresh"}

\* C28: the displayed deadline is set exactly while an auto-reset is pending:
\* a waiting reset has its deadline shown, and a shown deadline belongs to a
\* reset that waits or is sending its AUTO command.
C28_DeadlineIffResetPending ==
    /\ (\E t \in TaskIds : Pending(t)) => auto_reset_time # None
    /\ auto_reset_time # None => \E t \in TaskIds : Resetting(t)

\* A dispatch of the switch is in one of its wait states.
DispatchWaits == \E p \in ProcIds : Sleeping(p)

\* The poll can take its next step: a tick can start it, its request can
\* end, its wait can pass and end.
PollCanGoOn ==
    /\ (poll.pc = "idle" /\ budget.polls) => ENABLED async_update
    /\ poll.pc = "request" => ENABLED (\E r \in PollResponses : PollAttempt(r))
    /\ (poll.pc = "sleep" /\ poll.timer > 0) => ENABLED Tick
    /\ (poll.pc = "sleep" /\ poll.timer = 0) => ENABLED PollBackoffElapsed

\* A dispatch can take its next step: a service call can start one, its
\* request can end, its wait can pass and end, its refresh request returns.
DispatchCanGoOn ==
    /\ \A c \in CallIds :
          (budget.calls > 0 /\ procs[c].pc = "free"
             /\ \A d \in CallIds : d < c => procs[d].pc # "free")
          => /\ ENABLED async_turn_on(c)
             /\ ENABLED async_turn_off(c)
             /\ ENABLED async_turn_auto(c)
    /\ \A p \in ProcIds :
          /\ procs[p].pc = "request"
                => ENABLED (\E r \in Responses, d \in AutoDelays :
                               SendCommandAttempt(p, r, d))
          /\ (Sleeping(p) /\ procs[p].timer > 0) => ENABLED Tick
          /\ (procs[p].pc = "sleep" /\ procs[p].timer = 0) => ENABLED BackoffElapsed(p)
          /\ (procs[p].pc = "delay" /\ procs[p].timer = 0) => ENABLED AutoResetFires(p)
          /\ procs[p].pc = "refresh"
                => ENABLED (\E d \in AutoDelays : RefreshRequested(p, d))

C26_OneWarningPerTransition ==
    [][\A k \in SensorKeys :
          /\ sensor'[k].warned <= 1
          /\ sensor'[k].logged > sensor[k].logged
                => (sensor[k].warned = 0 /\ Get(coordinator.data, k) = None)
          /\ (sensor'[k] # sensor[k] /\ Get(coordinator.data, k) # None)
                => (~sensor'[k].has_logged_none_state /\ sensor'[k].warned = 0)]_vars

\* A sensor has logged its second warning, after a valid value in between.
C26_Witness ==
    \E k \in SensorKeys :
        /\ sensor[k].logged = 2
        /\ sensor[k].warned = 1
        /\ sensor[k].has_logged_none_state

\* C22, for the reading fetch of the setup: a request timeout is handled
\* like a connectivity failure, it uses up one attempt and the fetch is
\* retried while attempts remain; so a fetch that gave up on a timeout has
\* sent all its requests.
C22_TimeoutRetriedLikeConnectionError ==
    (flow.pc = "raised" /\ flow.cause = {"TimeoutError"})
        => flow.requests = flow.retry_attempts

\* C30: called with retry_attempts >= 1 and a stale or empty cache,
\* fetch_api_data sends at most retry_attempts requests, sends a further
\* request only after a connection error and in the same step, and ends
\* either returning the fetched data, stored in the cache with a new
\* timestamp, or raising ValueError with the cache as it was; it never
\* returns without data.
C30_FetchReturnsDataOrRaises ==
    [][/\ flow'.retry_attempts >= 1 => flow'.requests <= flow'.retry_attempts
       /\ flow'.retried_after \subseteq {"ClientConnectionError"}
       /\ (flow.pc = "request" /\ flow'.requests > flow.requests)
             => /\ flow'.cause = {"ClientConnectionError"}
                /\ flow'.pc = "request"
                /\ flow'.requests = flow.requests + 1
                /\ flow'.cache = flow.cache
       /\ (flow.pc = "request" /\ flow'.pc # "request")
             => \/ /\ flow'.pc = "returned"
                   /\ \E d \in FetchData :
                         /\ flow'.result = {d}
                         /\ flow'.cache = {[data |-> d, left |-> FLOW_CACHE_DURATION]}
                \/ /\ flow'.pc = "raised"
                   /\ flow'.error = {"ValueError"}
                   /\ flow'.result = None
                   /\ flow'.cache = flow.cache
       /\ (flow'.pc = "returned" /\ flow'.retry_attempts >= 1)
             => flow'.result # None]_vars

\* A fetch that found its cache stale gave up after retry_attempts connection
\* errors and left the stale cache as it was.
C30_Witness ==
    /\ flow.pc = "raised"
    /\ flow.retry_attempts > 1
    /\ flow.requests = flow.retry_attempts
    /\ flow.retried_after = {"ClientConnectionError"}
    /\ \E c \in flow.cache : c.left = 0

====
